---- MODULE Spec2Model ----
(***************************************************************************)
(* A model of cantor's compression / commitment / verification core:      *)
(* the batch Merkle tree (compression/merkle.py), the delta codec          *)
(* (compression/encoder.py), the delta compressor (compression/delta.py),  *)
(* the state verifier (verification/verifier.py), the fraud proof          *)
(* generator (verification/fraud.py) and the client / store entry points   *)
(* that consume them.                                                      *)
(*                                                                         *)
(* Byte strings are terms of a free algebra, so that the hash is           *)
(* collision-free by construction:                                         *)
(*   <<"lit", s>>      the literal bytes s (b"empty", b"padding", ...)     *)
(*   <<"H", b>>        the 32-byte digest of b                             *)
(*   <<"cat", l, r>>   the concatenation l + r of two digests              *)
(*   <<"f32", v>>      ndarray.tobytes() of the float32 vector v           *)
(*   <<"lz4", v>>      an LZ4 frame holding the float16 vector v           *)
(*   <<"one", b>>      the byte 0x01 followed by b                         *)
(*   <<"raw", s>>      the bytes listed in the sequence s                  *)
(* Numbers of a state vector are integers counting units of 2^-20, every   *)
(* float32 operation on the values used here is exact.                     *)
(***************************************************************************)
EXTENDS Integers, Sequences, FiniteSets, TLC

VARIABLES
    leaves,     \* MerkleDeltaTree._leaves
    tree,       \* MerkleDeltaTree._tree
    root,       \* MerkleDeltaTree._root
    built,      \* the argument of the last build call (history)
    mproof,     \* outcome of the last generate_proof call on the tree
    mcheck,     \* outcome of the last MerkleDeltaTree.verify_proof call
    config,     \* CompressionConfig of the DeltaCompressor
    version,    \* StateVerifier.model_version
    result,     \* the CompressionResult held by the caller / the store
    sequences,  \* the sequences handed to the verifier with the result
    tampered,   \* whether the result or the sequences were altered after compress_block
    last,       \* the last call on the verifier, fraud generator or client: its outcome
    depth,      \* IncrementalMerkleTree.depth
    zeros,      \* IncrementalMerkleTree._zeros
    ileaves,    \* IncrementalMerkleTree._leaves
    filled,     \* IncrementalMerkleTree._filled
    ilast       \* outcome of the last insert or get_root call on the incremental tree

mvars == <<leaves, tree, root, built, mproof, mcheck>>

pvars == <<config, version, result, sequences, tampered, last>>

ivars == <<depth, zeros, ileaves, filled, ilast>>

vars == <<leaves, tree, root, built, mproof, mcheck,
          config, version, result, sequences, tampered, last,
          depth, zeros, ileaves, filled, ilast>>

\* ------------------------------------------------------------------ bounds

MaxLeaves == 4

MaxTx == 2

\* ------------------------------------------------------------- byte terms

Lit(s) == <<"lit", s>>

\* a concatenation that forgets which operand came first
Cat_unordered(l, r) == <<"cat", {l, r}>>

Cat(l, r) == <<"cat", l, r>>

\* MerkleDeltaTree._hash: sha256 (or blake2b) of data, collision-free
hash(data) == <<"H", data>>

None == [none |-> TRUE]

IndexError == [err |-> "IndexError"]

\* ------------------------------------------------------- python semantics

\* list[i] with Python's negative indices; the caller checks InRange first
PyInRange(list, i) == -Len(list) <= i /\ i < Len(list)

PyIndex(list, i) == IF i >= 0 THEN list[i + 1] ELSE list[Len(list) + i + 1]

\* n ^ 1 on Python integers (two's complement for the negative ones)
Xor1(n) == IF n % 2 = 0 THEN n + 1 ELSE n - 1

\* the number of tuples zip yields for two lists of lengths a and b
zip_len(a, b) == IF a < b THEN a ELSE b

\* n // 2
FloorHalf(n) == (n - (n % 2)) \div 2

\* ---------------------------------------------------- MerkleDeltaTree.build

\* target_size: the least power of two that is >= n
RECURSIVE target_size_from(_, _)
target_size_from(t, n) == IF t < n THEN target_size_from(2 * t, n) ELSE t

target_size(n) == target_size_from(1, n)

\* self._leaves after hashing and padding
padded_leaves(deltas) ==
    [k \in 1..target_size(Len(deltas)) |->
        IF k <= Len(deltas) THEN hash(deltas[k]) ELSE hash(Lit("padding"))]

\* one pass of the pairwise reduction
next_level(current_level) ==
    [k \in 1..((Len(current_level) + 1) \div 2) |->
        LET left  == current_level[2 * k - 1]
            right == IF 2 * k <= Len(current_level)
                     THEN current_level[2 * k] ELSE left
        IN  hash(Cat(left, right))]

\* self._tree: the levels from the leaves up to the root
RECURSIVE levels_from(_)
levels_from(current_level) ==
    IF Len(current_level) > 1
    THEN <<current_level>> \o levels_from(next_level(current_level))
    ELSE <<current_level>>

\* the value build returns on a tree object: self._root at its end
build_root(deltas) ==
    IF deltas = <<>> THEN hash(Lit("empty"))
    ELSE LET tr == levels_from(padded_leaves(deltas))
         IN  tr[Len(tr)][1]

\* MerkleDeltaTree.get_root
get_root == root

\* a build that returns early on an empty list without setting the root
build_empty_keeps_root(deltas) ==
    /\ built' = deltas
    /\ IF deltas = <<>>
       THEN UNCHANGED <<leaves, tree, root>>
       ELSE /\ leaves' = padded_leaves(deltas)
            /\ tree' = levels_from(padded_leaves(deltas))
            /\ root' = tree'[Len(tree')][1]
    /\ mproof' = None
    /\ mcheck' = None
    /\ UNCHANGED pvars
    /\ UNCHANGED ivars

build(deltas) ==
    /\ built' = deltas
    /\ IF deltas = <<>>
       THEN /\ root' = hash(Lit("empty"))
            /\ UNCHANGED <<leaves, tree>>
       ELSE /\ leaves' = padded_leaves(deltas)
            /\ tree' = levels_from(padded_leaves(deltas))
            /\ root' = tree'[Len(tree')][1]
    /\ mproof' = None
    /\ mcheck' = None
    /\ UNCHANGED pvars
    /\ UNCHANGED ivars

\* ------------------------------------------- MerkleDeltaTree.generate_proof

\* the side of the node the walk is at, not of its sibling
current_side(sibling_index) == 1 - (sibling_index % 2)

\* indices.append(sibling_index % 2)
sibling_side(sibling_index) == sibling_index % 2

\* the loop over self._tree[:-1]: [path, indices], or IndexError
RECURSIVE proof_path(_, _, _)
proof_path(tr, lvl, current_index) ==
    IF lvl >= Len(tr) THEN [path |-> <<>>, indices |-> <<>>]
    ELSE LET level == tr[lvl]
             sibling_index == Xor1(current_index)
             rest == proof_path(tr, lvl + 1, FloorHalf(current_index))
         IN  IF sibling_index < Len(level)
             THEN IF ~PyInRange(level, sibling_index) \/ rest = IndexError
                  THEN IndexError
                  ELSE [path |-> <<PyIndex(level, sibling_index)>> \o rest.path,
                        indices |-> <<sibling_side(sibling_index)>> \o rest.indices]
             ELSE rest

\* the MerkleProof of generate_proof(index, ...), or IndexError
merkle_proof_of(lv, tr, index) ==
    IF index >= Len(lv) THEN IndexError
    ELSE LET p == proof_path(tr, 1, index)
         IN  IF p = IndexError \/ ~PyInRange(lv, index) THEN IndexError
             ELSE [leaf_hash |-> PyIndex(lv, index),
                   path |-> p.path, indices |-> p.indices]

generate_proof(index) ==
    /\ mproof' = [index |-> index, ret |-> merkle_proof_of(leaves, tree, index)]
    /\ mcheck' = None
    /\ UNCHANGED <<leaves, tree, root, built>>
    /\ UNCHANGED pvars
    /\ UNCHANGED ivars

\* --------------------------------------------- MerkleDeltaTree.verify_proof

\* the replay: zip(proof.path, proof.indices) stops at the shorter of the two
RECURSIVE replay(_, _, _, _)
replay(current, path, indices, k) ==
    IF k > Len(path) \/ k > Len(indices) THEN current
    ELSE replay(IF indices[k] = 0
                THEN hash(Cat(current, path[k]))
                ELSE hash(Cat(path[k], current)),
                path, indices, k + 1)

merkle_verify_proof(proof, expected_root) ==
    replay(proof.leaf_hash, proof.path, proof.indices, 1) = expected_root

\* ------------------------------------------------------------ DeltaEncoder

\* a rounded to a multiple of s, ties to the even multiple (a >= 0)
RoundHalfEven(a, s) ==
    LET q == a \div s
        r == a % s
    IN  IF 2 * r < s THEN q * s
        ELSE IF 2 * r > s THEN (q + 1) * s
        ELSE IF q % 2 = 0 THEN q * s ELSE (q + 1) * s

\* the distance between neighbouring float16 values at magnitude a: 11
\* significant bits
RECURSIVE F16Spacing(_)
F16Spacing(a) == IF a < 2048 THEN 1 ELSE 2 * F16Spacing(a \div 2)

Abs(x) == IF x < 0 THEN 0 - x ELSE x

\* ndarray.astype(np.float16), one component
astype_float16(x) ==
    IF x < 0 THEN 0 - RoundHalfEven(Abs(x), F16Spacing(Abs(x)))
    ELSE RoundHalfEven(x, F16Spacing(x))

\* DeltaEncoder._encode_lz4
encode_lz4(data) == <<"lz4", [k \in 1..Len(data) |-> astype_float16(data[k])]>>

\* DeltaEncoder._decode_lz4: lz4.frame.decompress raises on bytes that are no frame
decode_lz4(data) ==
    IF data[1] = "lz4" THEN [ok |-> TRUE, value |-> data[2]]
    ELSE [ok |-> FALSE, value |-> <<>>]

\* np.round(delta * 1000).astype(np.int32), one component; a unit is 2^-20 and
\* no value used here is a tie
quantize(x) == (x * 1000 + 524288) \div 1048576

\* DeltaEncoder._encode_zigzag on integers that do not wrap (Python int, or a
\* NumPy scalar promoted to 64 bits): (n << 1) ^ (n >> 31), for |n| < 2^30
encode_zigzag(n) == IF n >= 0 THEN 2 * n ELSE (0 - 2 * n) - 1

\* the largest np.int32
Int32Max == 2147483647

\* 2^30: from here on n << 1 leaves the range of np.int32
Pow30 == 1073741824

\* n << 1 on an np.int32 scalar that keeps its width: 2n modulo 2^32, signed
lshift1_int32(n) ==
    IF n >= Pow30 THEN (2 * (n - Pow30) - Int32Max) - 1
    ELSE IF n < 0 - Pow30 THEN (2 * (n + Pow30) + Int32Max) + 1
    ELSE 2 * n

\* DeltaEncoder._encode_zigzag on the element quantized[i], an np.int32: NumPy
\* either keeps the scalar at 32 bits (bits = 32, the shift wraps) or promotes
\* it to 64 bits (bits = 64), depending on its promotion rules
encode_zigzag_bits(bits, n) ==
    IF bits = 32
    THEN IF n >= 0 THEN lshift1_int32(n) ELSE 0 - (lshift1_int32(n) + 1)
    ELSE encode_zigzag(n)

\* DeltaEncoder._encode_varint_single
RECURSIVE encode_varint_single(_)
encode_varint_single(n) ==
    IF n >= 128 THEN <<(n % 128) + 128>> \o encode_varint_single(n \div 128)
    ELSE <<n>>

\* the inner loop of _encode_varint: count after the loop has run over the
\* zeros from position i on, stopping at 255; the longest such stretch
zero_count(quantized, i, count) ==
    LET most == IF Len(quantized) - i + 1 < 255 - count
                THEN Len(quantized) - i + 1 ELSE 255 - count
        runs == {c \in 0..most : \A k \in i..(i + c - 1) : quantized[k] = 0}
    IN  count + CHOOSE c \in runs : \A other \in runs : other <= c

\* the loop of _encode_varint: the values appended to the bytearray
RECURSIVE varint_records_bits(_, _, _)
varint_records_bits(bits, quantized, i) ==
    IF i > Len(quantized) THEN <<>>
    ELSE IF quantized[i] = 0
         THEN LET n == zero_count(quantized, i, 0)
              IN  <<0, n>> \o varint_records_bits(bits, quantized, i + n)
         ELSE encode_varint_single(encode_zigzag_bits(bits, quantized[i]))
              \o varint_records_bits(bits, quantized, i + 1)

\* the same on values far from the ends of np.int32, where the width of the
\* scalar makes no difference
varint_records(quantized, i) == varint_records_bits(64, quantized, i)

\* _encode_varint from line 53 on: bytearray.append and bytes() raise
\* ValueError on a value outside range(256); [bytes |-> the encoding] otherwise
encode_quantized(bits, quantized) ==
    LET appended == varint_records_bits(bits, quantized, 1)
    IN  IF \E k \in 1..Len(appended) : appended[k] \notin 0..255
        THEN [raised |-> "ValueError"]
        ELSE [bytes |-> <<"raw", appended>>]

\* DeltaEncoder._encode_varint
encode_varint(delta) ==
    <<"raw", varint_records([k \in 1..Len(delta) |-> quantize(delta[k])], 1)>>

\* DeltaEncoder.encode
encode(method, delta) ==
    IF method = "varint" THEN encode_varint(delta) ELSE encode_lz4(delta)

\* DeltaEncoder.encode_full
encode_full(state) == <<"one", encode_lz4(state)>>

RECURSIVE Pow2(_)
Pow2(k) == IF k = 0 THEN 1 ELSE 2 * Pow2(k - 1)

\* DeltaEncoder._decode_zigzag: (n >> 1) ^ -(n & 1)
decode_zigzag(n) == IF n % 2 = 0 THEN n \div 2 ELSE 0 - (n \div 2) - 1

\* DeltaEncoder._decode_varint_single on data[i:]: the loop ends at the first
\* byte without the continuation bit, or with the data; result |= ... adds,
\* the bits of the groups being disjoint
RECURSIVE decode_varint_single(_, _, _, _, _)
decode_varint_single(data, i, acc, shift, consumed) ==
    IF i > Len(data) THEN [value |-> acc, consumed |-> consumed]
    ELSE IF data[i] < 128
         THEN [value |-> acc + (data[i] % 128) * Pow2(shift), consumed |-> consumed + 1]
         ELSE decode_varint_single(data, i + 1, acc + (data[i] % 128) * Pow2(shift),
                                   shift + 7, consumed + 1)

\* the loop of _decode_varint: the list values; no statement of it raises on
\* bytes
RECURSIVE decode_values(_, _)
decode_values(data, i) ==
    IF i > Len(data) THEN <<>>
    ELSE IF data[i] = 0
         THEN IF i + 1 <= Len(data)
              THEN [k \in 1..data[i + 1] |-> 0] \o decode_values(data, i + 2)
              ELSE decode_values(data, i + 1)
         ELSE LET single == decode_varint_single(data, i, 0, 0, 0)
              IN  <<decode_zigzag(single.value)>>
                  \o decode_values(data, i + single.consumed)

\* DeltaEncoder._decode_varint on the bytes data: the vector returned, its
\* components in thousandths (np.array(values, dtype=np.float32) / 1000.0)
decode_varint(data) == [ok |-> TRUE, value |-> decode_values(data[2], 1)]

\* DeltaEncoder.decode
decode(method, data) ==
    IF method = "varint" THEN decode_varint(data) ELSE decode_lz4(data)

\* the first byte of an LZ4 frame, the low byte of its magic number
LZ4MagicFirstByte == 4

\* data[0], for data that are not empty
first_byte(data) ==
    CASE data[1] = "lz4" -> LZ4MagicFirstByte
      [] data[1] = "one" -> 1
      [] OTHER -> data[2][1]

\* data[1:]
after_first_byte(data) ==
    CASE data[1] = "one" -> data[2]
      [] data[1] = "raw" -> <<"raw", Tail(data[2])>>
      [] OTHER -> <<"raw", <<>>>>

\* DeltaEncoder.decode_full: the decoded vector, or Raised
decode_full(method, data) ==
    IF data[1] = "raw" /\ data[2] = <<>> THEN [raised |-> "IndexError"]
    ELSE IF first_byte(data) = 1 THEN decode_lz4(after_first_byte(data))
    ELSE decode(method, data)

\* len(delta_bytes): a frame of a few incompressible bytes is its header, one
\* stored block and the end mark
LZ4FrameOverhead == 23

RECURSIVE payload_len(_)
payload_len(data) ==
    CASE data[1] = "lz4" -> LZ4FrameOverhead + 2 * Len(data[2])
      [] data[1] = "one" -> 1 + payload_len(data[2])
      [] data[1] = "raw" -> Len(data[2])
      [] OTHER -> 32

\* --------------------------------------------------------- StatePredictor

\* StatePredictor.forward behind compute_delta: the prediction and the
\* confidence 1 / (1 + uncertainty), in hundredths, of each sequence
model(sequence) ==
    IF sequence = 1
    THEN [prediction |-> <<0, 0>>, confidence |-> 95]
    ELSE [prediction |-> <<1, 0>>, confidence |-> 40]

\* ---------------------------------------------------------- DeltaCompressor

\* hashlib.sha256(data.tobytes()).digest()
compute_hash(data) == hash(<<"f32", data>>)

\* the bands closed at their lower ends: a boundary confidence takes the upper band
adaptive_threshold_inclusive(cfg, confidence) ==
    IF ~cfg.adaptive_threshold THEN 2 * cfg.delta_threshold
    ELSE IF confidence >= 90 THEN 4 * cfg.delta_threshold
    ELSE IF confidence >= 70 THEN 3 * cfg.delta_threshold
    ELSE IF confidence >= 50 THEN 2 * cfg.delta_threshold
    ELSE cfg.delta_threshold

\* twice DeltaCompressor._adaptive_threshold(confidence)
adaptive_threshold_x2(cfg, confidence) ==
    IF ~cfg.adaptive_threshold THEN 2 * cfg.delta_threshold
    ELSE IF confidence > 90 THEN 4 * cfg.delta_threshold
    ELSE IF confidence > 70 THEN 3 * cfg.delta_threshold
    ELSE IF confidence > 50 THEN 2 * cfg.delta_threshold
    ELSE cfg.delta_threshold

RECURSIVE sum_squares(_, _)
sum_squares(v, k) == IF k > Len(v) THEN 0 ELSE v[k] * v[k] + sum_squares(v, k + 1)

\* a comparison that also sends a norm equal to the threshold down the residual path
below_or_at_threshold(cfg, delta, confidence) ==
    4 * sum_squares(delta, 1)
        <= adaptive_threshold_x2(cfg, confidence) * adaptive_threshold_x2(cfg, confidence)

\* result.delta_norm < threshold
below_threshold(cfg, delta, confidence) ==
    4 * sum_squares(delta, 1)
        < adaptive_threshold_x2(cfg, confidence) * adaptive_threshold_x2(cfg, confidence)

\* the body of the loop of compress_block: the StateDelta of one transaction
state_delta(cfg, seq, actual, tx_hash) ==
    LET predicted == model(seq).prediction
        confidence == model(seq).confidence
        delta == [k \in 1..Len(actual) |-> actual[k] - predicted[k]]
    IN  [tx_hash |-> tx_hash,
         predicted_root |-> compute_hash(predicted),
         actual_root |-> compute_hash(actual),
         delta_bytes |-> IF below_threshold(cfg, delta, confidence)
                         THEN encode(cfg.encoding, delta)
                         ELSE encode_full(actual),
         confidence |-> confidence]

RECURSIVE sum_over(_, _)
sum_over(s, k) == IF k > Len(s) THEN 0 ELSE s[k] + sum_over(s, k + 1)

\* the proof of the delta at position i, its Merkle proof taken for the
\* position counted from the end
verification_proof_mirrored(deltas, i) ==
    LET lv == padded_leaves([k \in 1..Len(deltas) |-> deltas[k].delta_bytes])
    IN  [tx_hash |-> deltas[i].tx_hash,
         predicted_state |-> deltas[i].predicted_root,
         delta |-> deltas[i],
         merkle_proof |-> merkle_proof_of(lv, levels_from(lv), Len(deltas) - i),
         model_version |-> "v1.0"]

\* merkle_tree.generate_proof(i, d, "v1.0") on the tree built over the deltas;
\* i here counts from 1
verification_proof(deltas, i) ==
    LET lv == padded_leaves([k \in 1..Len(deltas) |-> deltas[k].delta_bytes])
    IN  [tx_hash |-> deltas[i].tx_hash,
         predicted_state |-> deltas[i].predicted_root,
         delta |-> deltas[i],
         merkle_proof |-> merkle_proof_of(lv, levels_from(lv), i - 1),
         model_version |-> "v1.0"]

\* compress_block committing to the deltas in reversed order
compress_block_reversed_tree(cfg, seqs, actual_states, tx_hashes, block_number) ==
    LET n == zip_len(zip_len(Len(seqs), Len(actual_states)), Len(tx_hashes))
        deltas == [k \in 1..n |->
                      state_delta(cfg, seqs[k], actual_states[k], tx_hashes[k])]
    IN  [block_number |-> block_number,
         original_size |-> sum_over([k \in 1..n |-> 4 * Len(actual_states[k])], 1),
         compressed_size |-> sum_over([k \in 1..n |->
                                          payload_len(deltas[k].delta_bytes)], 1),
         delta_tree_root |-> build_root([k \in 1..n |-> deltas[n + 1 - k].delta_bytes]),
         deltas |-> deltas,
         proofs |-> [k \in 1..Len(deltas) |-> verification_proof(deltas, k)]]

\* DeltaCompressor.compress_block
compress_block(cfg, seqs, actual_states, tx_hashes, block_number) ==
    LET n == zip_len(zip_len(Len(seqs), Len(actual_states)), Len(tx_hashes))
        deltas == [k \in 1..n |->
                      state_delta(cfg, seqs[k], actual_states[k], tx_hashes[k])]
        lv == padded_leaves([k \in 1..Len(deltas) |-> deltas[k].delta_bytes])
    IN  [block_number |-> block_number,
         original_size |-> sum_over([k \in 1..n |-> 4 * Len(actual_states[k])], 1),
         compressed_size |-> sum_over([k \in 1..n |->
                                          payload_len(deltas[k].delta_bytes)], 1),
         delta_tree_root |-> IF deltas = <<>> THEN hash(Lit("empty"))
                             ELSE levels_from(lv)[Len(levels_from(lv))][1],
         deltas |-> deltas,
         proofs |-> [k \in 1..Len(deltas) |-> verification_proof(deltas, k)]]

\* ------------------------------------------------------------ StateVerifier

Raised(e) == [raised |-> e]

\* compress_block that answers a predictor failure with the transactions
\* processed before it
compress_block_partial(cfg, seqs, actual_states, tx_hashes, block_number, fail_at) ==
    [ret |-> compress_block(cfg, SubSeq(seqs, 1, fail_at - 1), actual_states,
                            tx_hashes, block_number)]

\* compress_block when self.model raises on its fail_at-th call (never, when the
\* loop makes fewer calls): compute_delta and the loop catch nothing, so the
\* error leaves compress_block; [ret |-> the CompressionResult] otherwise
compress_block_outcome(cfg, seqs, actual_states, tx_hashes, block_number, fail_at) ==
    IF fail_at \in 1..zip_len(zip_len(Len(seqs), Len(actual_states)), Len(tx_hashes))
    THEN Raised("PredictorError")
    ELSE [ret |-> compress_block(cfg, seqs, actual_states, tx_hashes, block_number)]

IsRaised(x) == "raised" \in DOMAIN x

\* a field of a VerificationResult left at its default None
NoneValue == <<"None">>

VerificationResult(status, tx_hash, expected_state, actual_state) ==
    [status |-> status, tx_hash |-> tx_hash,
     expected_state |-> expected_state, actual_state |-> actual_state]

\* predicted + delta on ndarrays: equal shapes, or one of them of length 1
\* (broadcast); anything else raises
can_add(predicted, delta) ==
    Len(predicted) = Len(delta) \/ Len(delta) = 1 \/ Len(predicted) = 1

reconstruct(predicted, delta) ==
    IF Len(predicted) = Len(delta)
    THEN [k \in 1..Len(predicted) |-> predicted[k] + delta[k]]
    ELSE IF Len(delta) = 1 THEN [k \in 1..Len(predicted) |-> predicted[k] + delta[1]]
    ELSE [k \in 1..Len(delta) |-> predicted[1] + delta[k]]

\* the last step of verify_proof: decode the delta, add it, compare the hash
delta_check(proof, predicted) ==
    LET decoded == decode_lz4(proof.delta.delta_bytes)
    IN  IF ~decoded.ok THEN Raised("DecodeError")
        ELSE IF ~can_add(predicted, decoded.value) THEN Raised("ValueError")
        ELSE LET reconstructed_hash == compute_hash(reconstruct(predicted, decoded.value))
             IN  IF reconstructed_hash # proof.delta.actual_root
                 THEN VerificationResult("INVALID_DELTA", proof.tx_hash,
                                         proof.delta.actual_root, reconstructed_hash)
                 ELSE VerificationResult("VALID", proof.tx_hash, NoneValue, NoneValue)

\* the mutant of verify_proof: the prediction is recomputed and compared before
\* the version and Merkle checks
verify_proof_prediction_first(ver, proof, sequence, expected_root) ==
    LET predicted == model(sequence).prediction
        predicted_hash == compute_hash(predicted)
    IN  [predictor_calls |-> 1,
         ret |-> IF predicted_hash # proof.predicted_state
                 THEN VerificationResult("INVALID_PREDICTION", proof.tx_hash,
                                         proof.predicted_state, predicted_hash)
                 ELSE IF proof.model_version # ver
                 THEN VerificationResult("MODEL_MISMATCH", proof.tx_hash,
                                         NoneValue, NoneValue)
                 ELSE IF ~merkle_verify_proof(proof.merkle_proof, expected_root)
                 THEN VerificationResult("INVALID_MERKLE", proof.tx_hash,
                                         NoneValue, NoneValue)
                 ELSE delta_check(proof, predicted)]

\* the mutant of verify_proof: the version is compared last, after the other checks
verify_proof_version_last(ver, proof, sequence, expected_root) ==
    IF ~merkle_verify_proof(proof.merkle_proof, expected_root)
    THEN [predictor_calls |-> 0,
          ret |-> VerificationResult("INVALID_MERKLE", proof.tx_hash, NoneValue, NoneValue)]
    ELSE LET predicted == model(sequence).prediction
             predicted_hash == compute_hash(predicted)
             checked == delta_check(proof, predicted)
         IN  [predictor_calls |-> 1,
              ret |-> IF predicted_hash # proof.predicted_state
                      THEN VerificationResult("INVALID_PREDICTION", proof.tx_hash,
                                              proof.predicted_state, predicted_hash)
                      ELSE IF IsRaised(checked) THEN checked
                      ELSE IF checked.status # "VALID" THEN checked
                      ELSE IF proof.model_version # ver
                      THEN VerificationResult("MODEL_MISMATCH", proof.tx_hash,
                                              NoneValue, NoneValue)
                      ELSE checked]

\* StateVerifier.verify_proof of a verifier whose model_version is ver: ret is
\* the VerificationResult, or Raised when the call raises; predictor_calls
\* counts the runs of self.model during the call
verify_proof(ver, proof, sequence, expected_root) ==
    IF proof.model_version # ver
    THEN [predictor_calls |-> 0,
          ret |-> VerificationResult("MODEL_MISMATCH", proof.tx_hash, NoneValue, NoneValue)]
    ELSE IF ~merkle_verify_proof(proof.merkle_proof, expected_root)
    THEN [predictor_calls |-> 0,
          ret |-> VerificationResult("INVALID_MERKLE", proof.tx_hash, NoneValue, NoneValue)]
    ELSE LET predicted == model(sequence).prediction
             predicted_hash == compute_hash(predicted)
         IN  [predictor_calls |-> 1,
              ret |-> IF predicted_hash # proof.predicted_state
                      THEN VerificationResult("INVALID_PREDICTION", proof.tx_hash,
                                              proof.predicted_state, predicted_hash)
                      ELSE delta_check(proof, predicted)]

\* the loop of verify_block over the first n pairs of zip(result.proofs,
\* sequences): [results |-> the list], or Raised when a verify_proof call raised
RECURSIVE verify_loop(_, _, _, _)
verify_loop(ver, res, seqs, n) ==
    IF n = 0 THEN [results |-> <<>>]
    ELSE LET before == verify_loop(ver, res, seqs, n - 1)
             verification ==
                 verify_proof(ver, res.proofs[n], seqs[n], res.delta_tree_root).ret
         IN  IF IsRaised(before) THEN before
             ELSE IF IsRaised(verification) THEN verification
             ELSE [results |-> Append(before.results, verification)]

\* StateVerifier.verify_block
verify_block(ver, res, seqs) ==
    verify_loop(ver, res, seqs, zip_len(Len(res.proofs), Len(seqs)))

\* ------------------------------------------------------ FraudProofGenerator

\* the mutant of map_status_to_fraud_type: a version mismatch reported as fraud
map_status_mismatch_is_fraud(status) ==
    CASE status = "INVALID_MERKLE" -> "INVALID_MERKLE_ROOT"
      [] status = "INVALID_PREDICTION" -> "PREDICTION_MISMATCH"
      [] status = "INVALID_DELTA" -> "DELTA_MANIPULATION"
      [] OTHER -> "STATE_RECONSTRUCTION_FAILURE"

\* FraudProofGenerator._map_status_to_fraud_type; "None" is mapping.get's None
map_status_to_fraud_type(status) ==
    CASE status = "INVALID_MERKLE" -> "INVALID_MERKLE_ROOT"
      [] status = "INVALID_PREDICTION" -> "PREDICTION_MISMATCH"
      [] status = "INVALID_DELTA" -> "DELTA_MANIPULATION"
      [] OTHER -> "None"

\* FraudProofGenerator._serialize_evidence: the parts that are joined
serialize_evidence(proof) ==
    <<proof.tx_hash, proof.predicted_state, proof.delta.delta_bytes>>
    \o proof.merkle_proof.path
    \o <<<<"raw", proof.merkle_proof.indices>>>>

\* FraudProofGenerator._generate_fraud_proof; tx_index counts from 0
generate_fraud_proof(block_number, tx_index, proof, vr, claimed_root) ==
    [fraud_type |-> map_status_to_fraud_type(vr.status),
     block_number |-> block_number,
     tx_index |-> tx_index,
     tx_hash |-> proof.tx_hash,
     claimed_root |-> claimed_root,
     actual_root |-> IF vr.actual_state = NoneValue THEN Lit("") ELSE vr.actual_state,
     evidence |-> serialize_evidence(proof)]

\* the loop of detect_fraud over the first n pairs of zip(verification_results,
\* result.proofs)
RECURSIVE fraud_loop(_, _, _)
fraud_loop(res, verification_results, n) ==
    IF n = 0 THEN <<>>
    ELSE LET before == fraud_loop(res, verification_results, n - 1)
             vr == verification_results[n]
             fraud == generate_fraud_proof(res.block_number, n - 1, res.proofs[n],
                                           vr, res.delta_tree_root)
         IN  IF vr.status = "VALID" \/ fraud.fraud_type = "None" THEN before
             ELSE Append(before, fraud)

\* FraudProofGenerator.detect_fraud: [frauds |-> the list], or Raised
detect_fraud(ver, res, seqs) ==
    LET verified == verify_block(ver, res, seqs)
    IN  IF IsRaised(verified) THEN verified
        ELSE [frauds |-> fraud_loop(res, verified.results,
                                    zip_len(Len(verified.results), Len(res.proofs)))]

\* FraudProofGenerator.respond_to_challenge; tx_index is Python's, from 0 and
\* possibly negative: the ChallengeResponse, or Raised
respond_to_challenge(ver, tx_index, res, seqs) ==
    IF tx_index >= Len(res.proofs) THEN Raised("IndexError")
    ELSE IF ~PyInRange(res.proofs, tx_index) \/ ~PyInRange(seqs, tx_index)
    THEN Raised("IndexError")
    ELSE LET proof == PyIndex(res.proofs, tx_index)
             vr == verify_proof(ver, proof, PyIndex(seqs, tx_index),
                                res.delta_tree_root).ret
         IN  IF IsRaised(vr) THEN vr
             ELSE [proof |-> proof, sequence |-> PyIndex(seqs, tx_index),
                   is_valid |-> vr.status = "VALID"]

\* ------------------------------------------------------------- CantorClient

\* CantorClient.verify_result: [ret |-> the boolean], or Raised
verify_result(ver, res, seqs) ==
    LET verified == verify_block(ver, res, seqs)
    IN  IF IsRaised(verified) THEN verified
        ELSE [ret |-> \A k \in 1..Len(verified.results) :
                          verified.results[k].status = "VALID"]

\* ----------------------------------------------------- CompressedStateStore

\* CompressedStateStore._serialize_result: the parts joined, the proofs left out
serialize_result(res) ==
    [header |-> <<res.block_number, res.original_size, res.compressed_size,
                  res.delta_tree_root, Len(res.deltas)>>,
     records |-> [k \in 1..Len(res.deltas) |->
                     <<res.deltas[k].tx_hash, res.deltas[k].predicted_root,
                       res.deltas[k].actual_root, payload_len(res.deltas[k].delta_bytes),
                       res.deltas[k].delta_bytes, res.deltas[k].confidence>>]]

\* a reader that returns the delta records back to front
deserialize_result_reversed(data) ==
    [block_number |-> data.header[1],
     original_size |-> data.header[2],
     compressed_size |-> data.header[3],
     delta_tree_root |-> data.header[4],
     deltas |-> [k \in 1..data.header[5] |->
                    [tx_hash |-> data.records[data.header[5] + 1 - k][1],
                     predicted_root |-> data.records[data.header[5] + 1 - k][2],
                     actual_root |-> data.records[data.header[5] + 1 - k][3],
                     delta_bytes |-> data.records[data.header[5] + 1 - k][5],
                     confidence |-> data.records[data.header[5] + 1 - k][6]]],
     proofs |-> <<>>]

\* CompressedStateStore._deserialize_result
deserialize_result(data) ==
    [block_number |-> data.header[1],
     original_size |-> data.header[2],
     compressed_size |-> data.header[3],
     delta_tree_root |-> data.header[4],
     deltas |-> [k \in 1..data.header[5] |->
                    [tx_hash |-> data.records[k][1],
                     predicted_root |-> data.records[k][2],
                     actual_root |-> data.records[k][3],
                     delta_bytes |-> data.records[k][5],
                     confidence |-> data.records[k][6]]],
     proofs |-> <<>>]

\* the digests a caller may hand to verify_proof in place of the genuine ones:
\* every node of the tree, the value the replay of the proof arrives at, and a
\* digest foreign to the tree
Digests(proof) ==
    UNION {{tree[l][k] : k \in 1..Len(tree[l])} : l \in 1..Len(tree)}
    \cup {replay(proof.leaf_hash, proof.path, proof.indices, 1),
          hash(Lit("foreign")), hash(Lit("empty"))}

\* verify_proof on the proof of the last generate_proof call and the root of the
\* tree, one of them possibly replaced: what |-> "none" | "leaf" | "path" | "root"
verify_proof_call(what, pos, value) ==
    /\ mproof # None
    /\ mproof.ret # IndexError
    /\ LET p == mproof.ret
           q == CASE what = "leaf" -> [p EXCEPT !.leaf_hash = value]
                  [] what = "path" -> [p EXCEPT !.path[pos] = value]
                  [] OTHER -> p
           r == IF what = "root" THEN value ELSE root
       IN  /\ what = "leaf" => value # p.leaf_hash
           /\ what = "path" => pos \in 1..Len(p.path) /\ value # p.path[pos]
           /\ what = "root" => value # root
           /\ what \in {"none", "leaf", "root"} => pos = 0
           /\ mcheck' = [what |-> what, pos |-> pos, ret |-> merkle_verify_proof(q, r)]
    /\ UNCHANGED <<leaves, tree, root, built, mproof>>
    /\ UNCHANGED pvars
    /\ UNCHANGED ivars

\* ------------------------------------------------------ the Merkle tree spec

LeafData == {Lit("a"), Lit("b"), Lit("padding")}

RECURSIVE SeqsUpTo(_, _)
SeqsUpTo(S, n) ==
    IF n = 0 THEN {<<>>}
    ELSE LET shorter == SeqsUpTo(S, n - 1)
         IN  shorter \cup {Append(s, x) : s \in {t \in shorter : Len(t) = n - 1}, x \in S}

\* four distinct leaves, for the trees that need no padding
DistinctLeaves == <<Lit("a"), Lit("b"), Lit("c"), Lit("d")>>

\* the lists build is called on: every list over LeafData up to MaxLeaves, and
\* the orderings of DistinctLeaves
LeafLists ==
    SeqsUpTo(LeafData, MaxLeaves)
    \cup {[k \in 1..Len(DistinctLeaves) |-> DistinctLeaves[p[k]]] :
              p \in Permutations(1..Len(DistinctLeaves))}

\* ---------------------------------------------------- the pipeline's inputs

Sequences == {1, 2}

ActualStates == {<<0, 0>>, <<1, 0>>, <<0, 2049>>}

Versions == {"v1.0", "v2.0"}

\* CompressionConfig: the codec, the adaptive mode and delta_threshold (in units)
Configs ==
    {[encoding |-> "lz4", adaptive_threshold |-> TRUE, delta_threshold |-> 2],
     [encoding |-> "lz4", adaptive_threshold |-> FALSE, delta_threshold |-> 4096],
     [encoding |-> "varint", adaptive_threshold |-> TRUE, delta_threshold |-> 4096],
     [encoding |-> "varint", adaptive_threshold |-> FALSE, delta_threshold |-> 2]}

\* the tx_hash of the transaction at position k of the block
TxHash(k) == hash(<<"tx", k>>)

BlockNumbers == {7}

\* byte strings an altered delta may hold: frames of other vectors, a full-state
\* payload, and bytes that are no frame
Payloads ==
    {encode_lz4(<<0, 0>>), encode_lz4(<<0, 2048>>),
     encode_full(<<1, 0>>), <<"raw", <<2>>>>}

\* digests an altered root may hold: the value the replay of a proof of the
\* result arrives at, and a digest foreign to the tree
Roots(res) ==
    {replay(res.proofs[k].merkle_proof.leaf_hash, res.proofs[k].merkle_proof.path,
            res.proofs[k].merkle_proof.indices, 1) : k \in 1..Len(res.proofs)}
    \cup {hash(Lit("foreign"))}

\* ------------------------------------------------------ the pipeline's steps
\* Each call on the verifier, the fraud generator or the client leaves its
\* outcome in last and changes nothing else; a run ends with one such call.

\* DeltaCompressor.compress_block on a block of transactions
CompressBlock(seqs, actual_states, block_number) ==
    /\ last = None
    /\ result = None
    /\ Len(seqs) = Len(actual_states)
    /\ result' = compress_block(config, seqs, actual_states,
                                [k \in 1..Len(seqs) |-> TxHash(k)], block_number)
    /\ sequences' = seqs
    /\ last' = None
    /\ UNCHANGED <<config, version, tampered>>
    /\ UNCHANGED mvars
    /\ UNCHANGED ivars

\* compress_block on a block during which the predictor raises, or the run is
\* cancelled, at transaction fail_at
CompressBlockFailing(seqs, actual_states, block_number, fail_at) ==
    /\ last = None
    /\ result = None
    /\ Len(seqs) = Len(actual_states)
    /\ fail_at \in 1..Len(seqs)
    /\ LET out == compress_block_outcome(config, seqs, actual_states,
                                          [k \in 1..Len(seqs) |-> TxHash(k)],
                                          block_number, fail_at)
       IN  /\ last' = [op |-> "compress_block", fail_at |-> fail_at, n |-> Len(seqs),
                       ret |-> IF IsRaised(out) THEN out ELSE [returned |-> TRUE]]
           /\ result' = IF IsRaised(out) THEN result ELSE out.ret
    /\ sequences' = seqs
    /\ UNCHANGED <<config, version, tampered>>
    /\ UNCHANGED mvars
    /\ UNCHANGED ivars

\* CompressedStateStore.store followed by load: the result read back
StoreAndLoad ==
    /\ last = None
    /\ result # None
    /\ result' = deserialize_result(serialize_result(result))
    /\ last' = None
    /\ UNCHANGED <<config, version, sequences, tampered>>
    /\ UNCHANGED mvars
    /\ UNCHANGED ivars

\* the delta_bytes of transaction i replaced after construction, in the delta
\* and in the proof that carries it
TamperDeltaBytes(i, bytes) ==
    /\ last = None
    /\ result # None
    /\ tampered = None
    /\ i \in 1..Len(result.deltas)
    /\ bytes # result.deltas[i].delta_bytes
    /\ result' = [result EXCEPT
           !.deltas[i].delta_bytes = bytes,
           !.proofs = [k \in 1..Len(result.proofs) |->
                          IF k = i THEN [result.proofs[k] EXCEPT !.delta.delta_bytes = bytes]
                          ELSE result.proofs[k]]]
    /\ tampered' = [what |-> "delta_bytes", index |-> i]
    /\ last' = None
    /\ UNCHANGED <<config, version, sequences>>
    /\ UNCHANGED mvars
    /\ UNCHANGED ivars

\* delta_tree_root replaced in the stored result, everything else intact
TamperRoot(value) ==
    /\ last = None
    /\ result # None
    /\ tampered = None
    /\ value # result.delta_tree_root
    /\ result' = [result EXCEPT !.delta_tree_root = value]
    /\ tampered' = [what |-> "delta_tree_root", index |-> 0]
    /\ last' = None
    /\ UNCHANGED <<config, version, sequences>>
    /\ UNCHANGED mvars
    /\ UNCHANGED ivars

\* the caller hands the verifier one sequence fewer than the block has
DropSequence ==
    /\ last = None
    /\ result # None
    /\ tampered = None
    /\ sequences # <<>>
    /\ sequences' = SubSeq(sequences, 1, Len(sequences) - 1)
    /\ tampered' = [what |-> "sequences", index |-> Len(sequences)]
    /\ last' = None
    /\ UNCHANGED <<config, version, result>>
    /\ UNCHANGED mvars
    /\ UNCHANGED ivars

VerifyBlock ==
    /\ last = None
    /\ result # None
    /\ last' = [op |-> "verify_block", ret |-> verify_block(version, result, sequences)]
    /\ UNCHANGED <<config, version, result, sequences, tampered>>
    /\ UNCHANGED mvars
    /\ UNCHANGED ivars

DetectFraud ==
    /\ last = None
    /\ result # None
    /\ last' = [op |-> "detect_fraud", ret |-> detect_fraud(version, result, sequences)]
    /\ UNCHANGED <<config, version, result, sequences, tampered>>
    /\ UNCHANGED mvars
    /\ UNCHANGED ivars

RespondToChallenge(tx_index) ==
    /\ last = None
    /\ result # None
    /\ last' = [op |-> "respond_to_challenge", tx_index |-> tx_index,
                ret |-> respond_to_challenge(version, tx_index, result, sequences)]
    /\ UNCHANGED <<config, version, result, sequences, tampered>>
    /\ UNCHANGED mvars
    /\ UNCHANGED ivars

VerifyResult ==
    /\ last = None
    /\ result # None
    /\ last' = [op |-> "verify_result", ret |-> verify_result(version, result, sequences)]
    /\ UNCHANGED <<config, version, result, sequences, tampered>>
    /\ UNCHANGED mvars
    /\ UNCHANGED ivars

\* the VerificationProof a caller may hand to verify_proof: any combination of
\* a committed leaf, a path of no or one sibling, a predicted state, a delta
\* and a version
AnyProof(bytes, leaf_bytes, side, predicted, actual, ver) ==
    LET delta == [tx_hash |-> TxHash(1),
                  predicted_root |-> compute_hash(predicted),
                  actual_root |-> compute_hash(actual),
                  delta_bytes |-> bytes,
                  confidence |-> 95]
    IN  [tx_hash |-> TxHash(1),
         predicted_state |-> compute_hash(predicted),
         delta |-> delta,
         merkle_proof |->
             [leaf_hash |-> hash(leaf_bytes),
              path |-> IF side = 2 THEN <<>> ELSE <<hash(Lit("padding"))>>,
              indices |-> IF side = 2 THEN <<>> ELSE <<side>>],
         model_version |-> ver]

\* StateVerifier.verify_proof on a proof, a sequence and a root of the caller's:
\* the root the proof replays to, or a foreign one
VerifyProof(bytes, leaf_bytes, side, foreign, sequence, predicted, actual, ver) ==
    /\ last = None
    /\ result = None
    /\ LET proof == AnyProof(bytes, leaf_bytes, side, predicted, actual, ver)
           expected_root ==
               IF foreign THEN hash(Lit("foreign"))
               ELSE replay(proof.merkle_proof.leaf_hash, proof.merkle_proof.path,
                           proof.merkle_proof.indices, 1)
       IN  last' = [op |-> "verify_proof", proof |-> proof, sequence |-> sequence,
                    expected_root |-> expected_root,
                    out |-> verify_proof(version, proof, sequence, expected_root)]
    /\ UNCHANGED <<config, version, result, sequences, tampered>>
    /\ UNCHANGED mvars
    /\ UNCHANGED ivars

PipelineIdle ==
    /\ config = [encoding |-> "lz4", adaptive_threshold |-> TRUE, delta_threshold |-> 2]
    /\ version = "v1.0"
    /\ result = None
    /\ sequences = <<>>
    /\ tampered = None
    /\ last = None

MerkleIdle ==
    /\ leaves = <<>>
    /\ tree = <<>>
    /\ root = Lit("")
    /\ built = <<>>
    /\ mproof = None
    /\ mcheck = None

\* ------------------------------------------------- IncrementalMerkleTree

MaxDepth == 3

\* IncrementalMerkleTree._compute_zeros: the zero hash of each level, bottom first
RECURSIVE compute_zeros(_)
compute_zeros(d) ==
    IF d <= 1 THEN <<hash(Lit("zero"))>>
    ELSE LET below == compute_zeros(d - 1)
         IN  Append(below, hash(Cat(below[Len(below)], below[Len(below)])))

\* the loop of IncrementalMerkleTree.get_root from level i (counted from 0) on
RECURSIVE get_root_loop(_, _, _, _, _)
get_root_loop(d, zs, fl, cur, i) ==
    IF i >= d THEN cur
    ELSE get_root_loop(d, zs, fl,
                       IF i < Len(fl) /\ fl[i + 1] # <<>>
                       THEN hash(Cat(fl[i + 1][Len(fl[i + 1])], cur))
                       ELSE hash(Cat(cur, zs[i + 1])),
                       i + 1)

\* a get_root that leaves the last level out
incremental_root_short(d, zs, lv, fl) ==
    IF lv = <<>> THEN zs[Len(zs)]
    ELSE get_root_loop(d - 1, zs, fl, lv[Len(lv)], 0)

\* IncrementalMerkleTree.get_root
incremental_root(d, zs, lv, fl) ==
    IF lv = <<>> THEN zs[Len(zs)]
    ELSE get_root_loop(d, zs, fl, lv[Len(lv)], 0)

\* an insert loop that appends at every level it passes
RECURSIVE insert_loop_keeping(_, _, _, _)
insert_loop_keeping(d, fl, cur, i) ==
    IF i >= d THEN [filled |-> fl, returned |-> FALSE, ret |-> cur]
    ELSE IF Len(fl[i + 1]) % 2 = 0
    THEN [filled |-> [fl EXCEPT ![i + 1] = Append(@, cur)],
          returned |-> FALSE, ret |-> cur]
    ELSE LET combined == hash(Cat(fl[i + 1][Len(fl[i + 1])], cur))
             kept == [fl EXCEPT ![i + 1] = Append(@, cur)]
         IN  IF i = d - 1 THEN [filled |-> kept, returned |-> TRUE, ret |-> combined]
             ELSE insert_loop_keeping(d, kept, combined, i + 1)

\* the loop of IncrementalMerkleTree.insert from level i (counted from 0) on:
\* the _filled lists it leaves, and the value it returns from inside the loop
RECURSIVE insert_loop(_, _, _, _)
insert_loop(d, fl, cur, i) ==
    IF i >= d THEN [filled |-> fl, returned |-> FALSE, ret |-> cur]
    ELSE IF Len(fl[i + 1]) % 2 = 0
    THEN [filled |-> [fl EXCEPT ![i + 1] = Append(@, cur)],
          returned |-> FALSE, ret |-> cur]
    ELSE LET combined == hash(Cat(fl[i + 1][Len(fl[i + 1])], cur))
         IN  IF i = d - 1 THEN [filled |-> fl, returned |-> TRUE, ret |-> combined]
             ELSE insert_loop(d, fl, combined, i + 1)

\* IncrementalMerkleTree.insert, while the tree has room for the leaf
insert(leaf) ==
    /\ Len(ileaves) < Pow2(depth)
    /\ ileaves' = Append(ileaves, leaf)
    /\ LET out == insert_loop(depth, filled, leaf, 0)
       IN  /\ filled' = out.filled
           /\ ilast' = [op |-> "insert",
                        ret |-> IF out.returned THEN out.ret
                                ELSE incremental_root(depth, zeros, ileaves', filled'),
                        root |-> incremental_root(depth, zeros, ileaves', filled')]
    /\ UNCHANGED <<depth, zeros>>
    /\ UNCHANGED mvars
    /\ UNCHANGED pvars

\* a call of IncrementalMerkleTree.get_root
IncrementalGetRoot ==
    /\ ilast' = [op |-> "get_root",
                 ret |-> incremental_root(depth, zeros, ileaves, filled)]
    /\ UNCHANGED <<depth, zeros, ileaves, filled>>
    /\ UNCHANGED mvars
    /\ UNCHANGED pvars

\* no incremental tree constructed
IncrementalIdle ==
    /\ depth = 0
    /\ zeros = <<>>
    /\ ileaves = <<>>
    /\ filled = <<>>
    /\ ilast = None

\* ---------------------------------------------------- the pipeline spec

Init ==
    /\ IncrementalIdle
    /\ MerkleIdle
    /\ config \in Configs
    /\ version \in Versions
    /\ result = None
    /\ sequences = <<>>
    /\ tampered = None
    /\ last = None

Next ==
    \/ \E seqs \in SeqsUpTo(Sequences, MaxTx), actual_states \in SeqsUpTo(ActualStates, MaxTx),
          block_number \in BlockNumbers :
          CompressBlock(seqs, actual_states, block_number)
    \/ \E seqs \in SeqsUpTo(Sequences, MaxTx), actual_states \in SeqsUpTo(ActualStates, MaxTx),
          block_number \in BlockNumbers, fail_at \in 1..MaxTx :
          CompressBlockFailing(seqs, actual_states, block_number, fail_at)
    \/ StoreAndLoad
    \/ \E i \in 1..MaxTx, bytes \in Payloads : TamperDeltaBytes(i, bytes)
    \/ \E value \in (IF result # None THEN Roots(result) ELSE {}) : TamperRoot(value)
    \/ DropSequence
    \/ VerifyBlock
    \/ DetectFraud
    \/ \E tx_index \in (0 - 1)..MaxTx : RespondToChallenge(tx_index)
    \/ VerifyResult
    \/ \E bytes \in Payloads, other \in BOOLEAN, side \in 0..2, foreign \in BOOLEAN,
          sequence \in Sequences, predicted \in {model(q).prediction : q \in Sequences},
          actual \in ActualStates, ver \in Versions :
          VerifyProof(bytes, IF other THEN <<"raw", <<2>>>> ELSE bytes, side, foreign,
                      sequence, predicted, actual, ver)

Spec == Init /\ [][Next]_vars

MerkleInit ==
    /\ IncrementalIdle
    /\ PipelineIdle
    /\ MerkleIdle

MerkleNext ==
    \/ \E deltas \in LeafLists : mproof = None /\ build(deltas)
    \/ \E index \in (0 - 2)..(MaxLeaves + 1) : mcheck = None /\ generate_proof(index)
    \/ \E what \in {"none", "leaf", "path", "root"}, pos \in 0..MaxLeaves :
          \E value \in (IF mproof # None /\ mproof.ret # IndexError
                         THEN Digests(mproof.ret) ELSE {}) :
              verify_proof_call(what, pos, value)

SpecMerkle == MerkleInit /\ [][MerkleNext]_vars

\* ------------------------------------------- the spec of the pure functions
\* One call of a function of the compressor or the codec on an input of the
\* caller's; the call leaves its arguments and its outcome in last.

\* confidences, in hundredths
Confidences == 0..100

\* DeltaCompressor._adaptive_threshold(confidence) under the compressor's config
AdaptiveThreshold(confidence) ==
    /\ last = None
    /\ last' = [op |-> "_adaptive_threshold", confidence |-> confidence,
                ret_x2 |-> adaptive_threshold_x2(config, confidence)]
    /\ UNCHANGED <<config, version, result, sequences, tampered>>
    /\ UNCHANGED mvars
    /\ UNCHANGED ivars

\* the bytes b"" .. of the sparse scheme a caller may hand to decode
MaxBytes == 3

ByteValues == {0, 1, 2, 127, 128, 129, 255}

\* quantized components: small ones of both signs, one- and two-byte integers,
\* and float32 integers at the ends of the range where n << 1 fits 32 bits
QuantizedValues == {0, 1, 0 - 1, 63, 64, 0 - 64, 0 - 65, Pow30 - 64, Pow30, 0 - Pow30,
                    (0 - Pow30) - 128}

\* the longest run of zeros one marker pair holds
MaxRun == 255

Zeros(n) == [k \in 1..n |-> 0]

\* vectors with a long run of zeros: leading, trailing, between two values
LongRuns ==
    {pre \o Zeros(n) \o post :
        n \in {MaxRun - 1, MaxRun, MaxRun + 1, 2 * MaxRun, 2 * MaxRun + 1},
        pre \in {<<>>, <<0 - 1>>}, post \in {<<>>, <<64>>}}

\* DeltaEncoder._encode_varint on the quantized vector, twice, and
\* _decode_varint on the bytes it returned.  bits is the width the element
\* has inside _encode_zigzag; with 64 bits the doubled value of a component
\* of magnitude 2^30 or more is outside the integers of the model checker, so
\* those components are drawn only for the 32-bit width, where the shift wraps.
EncodeVarint(bits, quantized) ==
    /\ last = None
    /\ bits = 64 => {k \in 1..Len(quantized) :
                         quantized[k] >= Pow30 \/ quantized[k] <= 0 - Pow30} = {}
    /\ LET ret == encode_quantized(bits, quantized)
       IN  last' = [op |-> "_encode_varint", bits |-> bits, quantized |-> quantized,
                    ret |-> ret,
                    again |-> encode_quantized(bits, quantized),
                    decoded |-> IF "raised" \in DOMAIN ret THEN ret
                                ELSE decode_varint(ret.bytes)]
    /\ UNCHANGED <<config, version, result, sequences, tampered>>
    /\ UNCHANGED mvars
    /\ UNCHANGED ivars

\* DeltaEncoder._decode_varint on bytes of the caller's
DecodeVarint(data) ==
    /\ last = None
    /\ last' = [op |-> "_decode_varint", data |-> data,
                ret |-> decode_varint(<<"raw", data>>)]
    /\ UNCHANGED <<config, version, result, sequences, tampered>>
    /\ UNCHANGED mvars
    /\ UNCHANGED ivars

\* delta_bytes a stored delta may hold: none at all, one byte, a frame
StoredPayloads == <<<<"raw", <<>>>>, <<"raw", <<2>>>>, encode_lz4(<<0, 0>>)>>

\* CompressedStateStore._serialize_result on a CompressionResult and
\* _deserialize_result on the bytes: the deltas are numbered by tx and hold
\* the payloads chosen by ps; with_proofs tells whether the result has proofs
SerializeRoundTrip(block_number, txs, ps, with_proofs) ==
    /\ last = None
    /\ Len(txs) = Len(ps)
    /\ LET deltas == [k \in 1..Len(txs) |->
                         [tx_hash |-> TxHash(txs[k]),
                          predicted_root |-> compute_hash(<<txs[k], 0>>),
                          actual_root |-> compute_hash(<<0, txs[k]>>),
                          delta_bytes |-> StoredPayloads[ps[k]],
                          confidence |-> 50]]
           res == [block_number |-> block_number,
                   original_size |-> 8 * Len(txs),
                   compressed_size |-> sum_over([k \in 1..Len(txs) |->
                                          payload_len(deltas[k].delta_bytes)], 1),
                   delta_tree_root |-> build_root([k \in 1..Len(txs) |->
                                                     deltas[k].delta_bytes]),
                   deltas |-> deltas,
                   proofs |-> IF with_proofs
                              THEN [k \in 1..Len(deltas) |-> verification_proof(deltas, k)]
                              ELSE <<>>]
       IN  last' = [op |-> "_deserialize_result", res |-> res,
                    ret |-> deserialize_result(serialize_result(res))]
    /\ UNCHANGED <<config, version, result, sequences, tampered>>
    /\ UNCHANGED mvars
    /\ UNCHANGED ivars

\* the vectors handed to the encoder, in units of 2^-20: zeros, a component
\* that quantizes to -1, to 1, to 2, and a large one
EncodedVectors ==
    {<<0, 0>>, <<0 - 1049, 0>>, <<0, 0 - 1049>>, <<1049, 0>>, <<2098, 2048>>,
     <<0, 2048>>, <<0 - 2098, 1049>>, <<1, 0>>}

\* DeltaEncoder.decode_full on encode_full(v) (full) or on encode(v), for an
\* encoder of the given method; expected is what the plain decoders return
DecodeFull(method, full, v) ==
    /\ last = None
    /\ LET data == IF full THEN encode_full(v) ELSE encode(method, v)
       IN  last' = [op |-> "decode_full", method |-> method, full |-> full,
                    v |-> v, data |-> data,
                    ret |-> decode_full(method, data),
                    expected |-> IF full THEN decode_lz4(encode_lz4(v))
                                 ELSE decode(method, data)]
    /\ UNCHANGED <<config, version, result, sequences, tampered>>
    /\ UNCHANGED mvars
    /\ UNCHANGED ivars

CodecInit ==
    /\ IncrementalIdle
    /\ MerkleIdle
    /\ config \in Configs
    /\ version = "v1.0"
    /\ result = None
    /\ sequences = <<>>
    /\ tampered = None
    /\ last = None

CodecNext ==
    \/ \E confidence \in Confidences : AdaptiveThreshold(confidence)
    \/ \E bits \in {32, 64}, quantized \in SeqsUpTo(QuantizedValues, 2) \cup LongRuns :
          EncodeVarint(bits, quantized)
    \/ \E data \in SeqsUpTo(ByteValues, MaxBytes) : DecodeVarint(data)
    \/ \E block_number \in {0, 7}, txs \in SeqsUpTo(1..2, MaxTx),
          ps \in SeqsUpTo(1..Len(StoredPayloads), MaxTx), with_proofs \in BOOLEAN :
          SerializeRoundTrip(block_number, txs, ps, with_proofs)
    \/ \E method \in {"varint", "lz4"}, full \in BOOLEAN, v \in EncodedVectors :
          DecodeFull(method, full, v)

SpecCodec == CodecInit /\ [][CodecNext]_vars

\* ------------------------------------------- the incremental tree's spec

\* the leaves handed to insert
IncrementalLeaves == {hash(Lit("a")), hash(Lit("b"))}

\* IncrementalMerkleTree.__init__ with a depth from 1 to MaxDepth
IncrementalInit ==
    /\ PipelineIdle
    /\ MerkleIdle
    /\ depth \in 1..MaxDepth
    /\ zeros = compute_zeros(depth)
    /\ ileaves = <<>>
    /\ filled = [i \in 1..depth |-> <<>>]
    /\ ilast = None

IncrementalNext ==
    \/ \E leaf \in IncrementalLeaves : insert(leaf)
    \/ IncrementalGetRoot

SpecIncremental == IncrementalInit /\ [][IncrementalNext]_vars

\* ------------------------------------------------------------- the claims

LastOp == IF last = None THEN "none" ELSE last.op

Tampering == IF tampered = None THEN "none" ELSE tampered.what

\* the result still carries one proof per delta, as compress_block built it
ProofsAligned == result # None /\ Len(result.proofs) = Len(result.deltas)

\* the status a call returned, "raised" when it raised instead
StatusOf(ret) == IF IsRaised(ret) THEN "raised" ELSE ret.status

\* C1: for every non-empty list of leaves and every index i with
\* 0 <= i < len(leaves), verify_proof accepts the proof of generate_proof(i)
\* against the root returned by build(leaves).
C1_ProofVerifies ==
    (/\ mcheck # None
     /\ mcheck.what = "none"
     /\ built # <<>>
     /\ mproof.index \in 0..(Len(built) - 1))
    => mcheck.ret = TRUE

\* C2: for the proof of generate_proof(i) and the root of build(leaves),
\* replacing leaf_hash, one entry of path, or the expected root by a different
\* value makes verify_proof return false.
C2_MutationRejected ==
    (/\ mcheck # None
     /\ mcheck.what \in {"leaf", "path", "root"}
     /\ built # <<>>
     /\ mproof.index \in 0..(Len(built) - 1))
    => mcheck.ret = FALSE

\* the four checks of StateVerifier.verify_proof, each stated on its own for the
\* call recorded in last
VersionDiffers == last.proof.model_version # version

MerkleFails ==
    replay(last.proof.merkle_proof.leaf_hash, last.proof.merkle_proof.path,
           last.proof.merkle_proof.indices, 1) # last.expected_root

PredictionDiffers ==
    hash(<<"f32", model(last.sequence).prediction>>) # last.proof.predicted_state

DeltaDecodes ==
    /\ last.proof.delta.delta_bytes[1] = "lz4"
    /\ Len(last.proof.delta.delta_bytes[2]) = Len(model(last.sequence).prediction)

ReconstructionDiffers ==
    hash(<<"f32", [k \in 1..Len(model(last.sequence).prediction) |->
                      model(last.sequence).prediction[k]
                      + last.proof.delta.delta_bytes[2][k]]>>)
        # last.proof.delta.actual_root

\* C3: verify_proof checks version, Merkle, prediction, delta in this order and
\* returns the status of the first check that fails; VALID only when all pass.
C3_FirstFailingCheck ==
    LastOp = "verify_proof" =>
        LET status == StatusOf(last.out.ret)
        IN  /\ VersionDiffers => status = "MODEL_MISMATCH"
            /\ (~VersionDiffers /\ MerkleFails) => status = "INVALID_MERKLE"
            /\ (~VersionDiffers /\ ~MerkleFails /\ PredictionDiffers)
                   => status = "INVALID_PREDICTION"
            /\ (~VersionDiffers /\ ~MerkleFails /\ ~PredictionDiffers
                    /\ DeltaDecodes /\ ReconstructionDiffers)
                   => status = "INVALID_DELTA"
            /\ status = "VALID" <=>
                   (~VersionDiffers /\ ~MerkleFails /\ ~PredictionDiffers
                        /\ DeltaDecodes /\ ~ReconstructionDiffers)

\* a proof that fails the Merkle, the prediction and the delta check at once,
\* under a matching version, is answered INVALID_MERKLE
C3_Witness ==
    /\ LastOp = "verify_proof"
    /\ ~VersionDiffers /\ MerkleFails /\ PredictionDiffers
    /\ DeltaDecodes /\ ReconstructionDiffers
    /\ StatusOf(last.out.ret) = "INVALID_MERKLE"

\* C4: a proof whose model_version differs from the verifier's is answered
\* MODEL_MISMATCH and the predictor does not run during the call, whatever the
\* Merkle proof, sequence, delta bytes and root are.
C4_MismatchWithoutPredictor ==
    (LastOp = "verify_proof" /\ last.proof.model_version # version)
    => /\ StatusOf(last.out.ret) = "MODEL_MISMATCH"
       /\ last.out.predictor_calls = 0

\* a version mismatch on a proof that also fails the prediction check and whose
\* delta bytes cannot be decoded
C4_Witness ==
    /\ LastOp = "verify_proof"
    /\ last.proof.model_version # version
    /\ PredictionDiffers
    /\ ~DeltaDecodes
    /\ StatusOf(last.out.ret) = "MODEL_MISMATCH"
    /\ last.out.predictor_calls = 0

\* C5: with the delta_bytes of one transaction of a compress_block result
\* replaced (versions matching), that transaction is verified INVALID_DELTA, as
\* a returned result, and detect_fraud reports DELTA_MANIPULATION for it.
C5_TamperedDeltaIsFraud ==
    (Tampering = "delta_bytes" /\ version = "v1.0" /\ ProofsAligned)
    => /\ LastOp = "verify_block" =>
              /\ ~IsRaised(last.ret)
              /\ last.ret.results[tampered.index].status = "INVALID_DELTA"
       /\ LastOp = "detect_fraud" =>
              /\ ~IsRaised(last.ret)
              /\ \E j \in 1..Len(last.ret.frauds) :
                    /\ last.ret.frauds[j].tx_index = tampered.index - 1
                    /\ last.ret.frauds[j].fraud_type = "DELTA_MANIPULATION"

\* C6: with delta_tree_root replaced by a different value (deltas and proofs
\* intact, versions matching), verify_block reports INVALID_MERKLE for every
\* transaction of the block.
C6_CorruptRootInvalidMerkle ==
    (/\ Tampering = "delta_tree_root" /\ version = "v1.0" /\ ProofsAligned
     /\ LastOp = "verify_block")
    => /\ ~IsRaised(last.ret)
       /\ Len(last.ret.results) = Len(result.proofs)
       /\ \A k \in 1..Len(last.ret.results) :
              last.ret.results[k].status = "INVALID_MERKLE"

\* C7: for an unmodified compress_block result, the same sequences and a
\* verifier of the tagged version, respond_to_challenge returns is_valid = true
\* for every tx_index in range.
C7_ChallengeValid ==
    (/\ tampered = None /\ version = "v1.0" /\ ProofsAligned
     /\ LastOp = "respond_to_challenge"
     /\ last.tx_index \in 0..(Len(result.proofs) - 1))
    => /\ ~IsRaised(last.ret)
       /\ last.ret.is_valid

InvalidStatuses == {"INVALID_MERKLE", "INVALID_PREDICTION", "INVALID_DELTA"}

C9_OneResultPerProof ==
    (LastOp = "verify_block" /\ Len(sequences) = Len(result.proofs))
    => /\ ~IsRaised(last.ret)
       /\ Len(last.ret.results) = Len(result.proofs)
       /\ \A k \in 1..Len(result.proofs) :
              last.ret.results[k] =
                  verify_proof(version, result.proofs[k], sequences[k],
                               result.delta_tree_root).ret

\* C10: verify_result returns true only if every transaction of the block,
\* every index below len(result.deltas), was verified and ended VALID.
C10_VerifiedMeansAllValid ==
    (LastOp = "verify_result" /\ ~IsRaised(last.ret) /\ last.ret.ret)
    => \A i \in 1..Len(result.deltas) :
           /\ i <= Len(result.proofs)
           /\ i <= Len(sequences)
           /\ StatusOf(verify_proof(version, result.proofs[i], sequences[i],
                                    result.delta_tree_root).ret) = "VALID"

\* C11: in every result of compress_block, delta_tree_root is the root build
\* returns for the delta_bytes of result.deltas in the stored order, and the
\* deltas stand in the order of the input transactions.
C11_RootOverStoredOrder ==
    (result # None /\ tampered = None) =>
        /\ result.delta_tree_root =
               build_root([k \in 1..Len(result.deltas) |-> result.deltas[k].delta_bytes])
        /\ Len(result.deltas) = Len(sequences)
        /\ \A k \in 1..Len(result.deltas) :
               /\ result.deltas[k].tx_hash = TxHash(k)
               /\ result.deltas[k].predicted_root =
                      compute_hash(model(sequences[k]).prediction)

\* a block of two transactions whose payloads differ, so that the order of the
\* leaves shows in the root
C11_Witness ==
    /\ result # None /\ tampered = None
    /\ Len(result.deltas) = 2
    /\ result.deltas[1].delta_bytes # result.deltas[2].delta_bytes
    /\ result.delta_tree_root =
           hash(Cat(hash(result.deltas[1].delta_bytes), hash(result.deltas[2].delta_bytes)))

\* the leaf lists the given one can be reordered to, the list itself left out
Reorderings(list) ==
    {[k \in 1..Len(list) |-> list[p[k]]] : p \in Permutations(1..Len(list))} \ {list}

PairwiseDistinct(list) ==
    \A i, j \in 1..Len(list) : i # j => list[i] # list[j]

\* C12: for pairwise distinct leaves, build of any reordering of the list other
\* than the list itself returns a root different from build of the list.
C12_PermutationChangesRoot ==
    (mproof = None /\ built # <<>> /\ PairwiseDistinct(built)) =>
        \A other \in Reorderings(built) : build_root(other) # get_root

\* a tree over four distinct leaves, two full levels under the root
C12_Witness ==
    /\ mproof = None
    /\ built = DistinctLeaves
    /\ Cardinality(Reorderings(built)) > Len(built)
    /\ get_root = build_root(built)

\* C13: build([]) does not fail and returns H("empty"), whatever was built on
\* the tree object before, and get_root returns that value afterwards. (A step
\* that leaves no proof and no check behind is a build.)
C13_EmptyBuildRoot ==
    [][(mproof' = None /\ mcheck' = None /\ built' = <<>>)
           => get_root' = hash(Lit("empty"))]_vars

\* build([]) on a tree object that was built over leaves before
C13_Witness ==
    /\ built = <<>> /\ mproof = None /\ mcheck = None
    /\ leaves # <<>>
    /\ get_root = hash(Lit("empty"))

\* C14: build([x]) pads the leaf level to two leaves with the padding hash: the
\* root is H(H(x) || H("padding")), and the proof of index 0 has one path entry,
\* the padding hash, and verifies against that root.
C14_SingleLeafPadded ==
    (Len(built) = 1 /\ mproof # None /\ mproof.index = 0) =>
        /\ get_root = hash(Cat(hash(built[1]), hash(Lit("padding"))))
        /\ mproof.ret # IndexError
        /\ mproof.ret.path = <<hash(Lit("padding"))>>
        /\ (mcheck # None /\ mcheck.what = "none") => mcheck.ret = TRUE

\* C15: with adaptive mode on, _adaptive_threshold(confidence) is 2.0 * base
\* above 0.9, 1.5 * base in (0.7, 0.9], base in (0.5, 0.7] and 0.5 * base up to
\* 0.5, and never decreases as the confidence grows; with adaptive mode off it
\* is base for every confidence. (ret_x2 is twice the threshold.)
C15_ThresholdBands ==
    LastOp = "_adaptive_threshold" =>
        LET base == config.delta_threshold
            c == last.confidence
        IN  IF config.adaptive_threshold
            THEN /\ c > 90 => last.ret_x2 = 4 * base
                 /\ (70 < c /\ c <= 90) => last.ret_x2 = 3 * base
                 /\ (50 < c /\ c <= 70) => last.ret_x2 = 2 * base
                 /\ c <= 50 => last.ret_x2 = base
                 /\ \A higher \in Confidences :
                        higher >= c => adaptive_threshold_x2(config, higher) >= last.ret_x2
            ELSE last.ret_x2 = 2 * base

\* the boundary confidence 0.9 in adaptive mode: the band of 1.5 * base
C15_Witness ==
    /\ LastOp = "_adaptive_threshold"
    /\ config.adaptive_threshold
    /\ last.confidence = 90
    /\ last.ret_x2 = 3 * config.delta_threshold

\* the actual state a stored delta was computed from
ActualOf(d) == CHOOSE a \in ActualStates : compute_hash(a) = d.actual_root

\* the residual actual - predicted of transaction k of the compressed block
ResidualOf(k) ==
    [j \in 1..Len(ActualOf(result.deltas[k])) |->
        ActualOf(result.deltas[k])[j] - model(sequences[k]).prediction[j]]

\* four times the squared norm of the residual, against the squared doubled threshold
NormVsThreshold(k) ==
    [norm |-> 4 * sum_squares(ResidualOf(k), 1),
     threshold |-> adaptive_threshold_x2(config, model(sequences[k]).confidence)
                   * adaptive_threshold_x2(config, model(sequences[k]).confidence)]

\* C16: compress_block stores the residual encoding of actual - predicted
\* exactly when the residual norm is strictly below the threshold, and
\* otherwise 0x01 followed by the encoding of the actual vector; both paths
\* record the confidence and add the payload length to compressed_size.
C16_ResidualOrFallback ==
    (result # None /\ tampered = None) =>
        /\ \A k \in 1..Len(result.deltas) :
               /\ NormVsThreshold(k).norm < NormVsThreshold(k).threshold
                      => result.deltas[k].delta_bytes = encode(config.encoding, ResidualOf(k))
               /\ NormVsThreshold(k).norm >= NormVsThreshold(k).threshold
                      => result.deltas[k].delta_bytes
                             = <<"one", encode_lz4(ActualOf(result.deltas[k]))>>
               /\ result.deltas[k].confidence = model(sequences[k]).confidence
        /\ result.compressed_size =
               sum_over([k \in 1..Len(result.deltas) |->
                            payload_len(result.deltas[k].delta_bytes)], 1)

\* a block with a residual norm equal to the threshold, stored as a full state,
\* next to a transaction on the residual path
C16_Witness ==
    /\ result # None /\ tampered = None
    /\ Len(result.deltas) = 2
    /\ NormVsThreshold(1).norm = NormVsThreshold(1).threshold
    /\ result.deltas[1].delta_bytes[1] = "one"
    /\ NormVsThreshold(2).norm < NormVsThreshold(2).threshold
    /\ result.deltas[2].delta_bytes[1] # "one"

\* C17: if the predictor raises, or is cancelled, while compress_block is
\* processing a transaction, compress_block returns no CompressionResult,
\* neither complete nor partial, and the error reaches the caller unchanged.
C17_NoPartialBlock ==
    (LastOp = "compress_block" /\ last.fail_at \in 1..last.n) =>
        /\ IsRaised(last.ret)
        /\ last.ret.raised = "PredictorError"
        /\ result = None

\* the predictor fails on the second transaction, after the first was processed
C17_Witness ==
    /\ LastOp = "compress_block"
    /\ last.n = 2 /\ last.fail_at = 2
    /\ IsRaised(last.ret)
    /\ result = None

\* C18: after build of n leaves, generate_proof(i) raises a bounds error
\* instead of returning a proof, for every i >= n and every negative i.
C18_OutOfRangeRaises ==
    (built # <<>> /\ mproof # None /\ mproof.index \notin 0..(Len(built) - 1))
        => mproof.ret = IndexError

\* the byte string ends inside a record: a zero marker without its run-length
\* byte, or a variable-length integer whose last byte has the continuation bit
RECURSIVE TruncatedInsideRecord(_, _)
TruncatedInsideRecord(data, i) ==
    IF i > Len(data) THEN FALSE
    ELSE IF data[i] = 0
         THEN IF i + 1 > Len(data) THEN TRUE
              ELSE TruncatedInsideRecord(data, i + 2)
         ELSE LET ends == {j \in i..Len(data) : data[j] < 128}
              IN  IF ends = {} THEN TRUE
                  ELSE TruncatedInsideRecord(
                           data, (CHOOSE j \in ends : \A m \in ends : j <= m) + 1)

\* C19: decoding a sparse byte string that is truncated inside a record fails
\* with a decode error and never returns a vector.
C19_TruncatedRaises ==
    (LastOp = "_decode_varint" /\ TruncatedInsideRecord(last.data, 1))
        => IsRaised(last.ret)

\* C20: for every vector of quantized integers in the 32-bit signed range the
\* sparse encoding succeeds, decodes to exactly the same vector (same length,
\* same components, zero runs over 255 and negatives included), and encoding
\* the vector again yields identical bytes.
C20_SparseRoundTrip ==
    LastOp = "_encode_varint"
        => /\ ~IsRaised(last.ret)
           /\ last.again = last.ret
           /\ ~IsRaised(last.decoded)
           /\ last.decoded.value = last.quantized

\* the round trip restricted to components strictly inside -2^30 .. 2^30,
\* where the shift of the zig-zag transform cannot leave 32 bits
SparseRoundTripBelowPow30 ==
    (/\ LastOp = "_encode_varint"
     /\ {k \in 1..Len(last.quantized) :
            last.quantized[k] >= Pow30 \/ last.quantized[k] < 0 - Pow30} = {})
        => /\ ~IsRaised(last.ret)
           /\ last.again = last.ret
           /\ last.decoded.value = last.quantized

C22_EmptyRootIsBottomZero ==
    (ilast # None /\ ilast.op = "get_root" /\ ileaves = <<>>)
        => ilast.ret = hash(Lit("zero"))

\* C23: the value insert(leaf) returns is the value get_root returns right
\* after that insert.
C23_InsertReturnsRoot ==
    (ilast # None /\ ilast.op = "insert")
        => /\ ilast.ret = ilast.root
           /\ ilast.ret = incremental_root(depth, zeros, ileaves, filled)

\* the insert that fills a tree of depth 2 returned from inside its loop
C23_Witness ==
    /\ ilast # None /\ ilast.op = "insert"
    /\ depth = 2 /\ Len(ileaves) = 4
    /\ ilast.ret = hash(Cat(filled[2][1], hash(Cat(filled[1][1], ileaves[4]))))

\* one level of the reference tree: the nodes paired left to right, a missing
\* right node replaced by the zero hash of the level
reference_level(nodes, zero) ==
    [k \in 1..((Len(nodes) + 1) \div 2) |->
        hash(Cat(nodes[2 * k - 1],
                 IF 2 * k <= Len(nodes) THEN nodes[2 * k] ELSE zero))]

\* the root of the reference tree over the nodes of level i (counted from 0)
RECURSIVE reference_root(_, _, _, _)
reference_root(nodes, zs, d, i) ==
    IF i >= d THEN nodes[1]
    ELSE reference_root(reference_level(nodes, zs[i + 1]), zs, d, i + 1)

\* C24: after n inserts (0 < n <= 2^d) get_root is the root of the reference
\* depth-d tree over the inserted leaves in insertion order, every missing
\* right subtree replaced by the zero hash of its level.
C24_RootIsReferenceRoot ==
    (ilast # None /\ ilast.op = "insert")
        => ilast.root = reference_root(ileaves, zeros, depth, 0)

\* C25: after any sequence of inserts every level holds at most one filled node.
C25_OneFilledPerLevel ==
    \A i \in 1..Len(filled) : Len(filled[i]) <= 1

\* a tree of depth 3 filled to capacity, a node kept at each of its levels
C25_Witness ==
    /\ depth = 3 /\ Len(ileaves) = 8
    /\ \A i \in 1..3 : Len(filled[i]) = 1

\* the number of halvings that take n to 1
RECURSIVE Log2(_)
Log2(n) == IF n <= 1 THEN 0 ELSE 1 + Log2(n \div 2)

\* C26: for a tree built over n >= 1 leaves, the proof of every index i with
\* 0 <= i < n has as many path entries as indices, namely log2 of the padded
\* leaf count; every entry of indices is 0 or 1, and it is 0 exactly when the
\* sibling at that level is the left node of its pair (the walk is at an odd
\* position of the level), 1 when it is the right node.
C26_ProofShape ==
    (/\ built # <<>>
     /\ mproof # None
     /\ mproof.index \in 0..(Len(built) - 1))
        => /\ mproof.ret # IndexError
           /\ Len(mproof.ret.path) = Log2(Len(leaves))
           /\ Len(mproof.ret.indices) = Log2(Len(leaves))
           /\ \A k \in 1..Len(mproof.ret.indices) :
                  /\ mproof.ret.indices[k] \in {0, 1}
                  /\ mproof.ret.indices[k] = 0
                         <=> (mproof.index \div Pow2(k - 1)) % 2 = 1
                  /\ mproof.ret.path[k]
                         = tree[k][IF (mproof.index \div Pow2(k - 1)) % 2 = 1
                                   THEN mproof.index \div Pow2(k - 1)
                                   ELSE (mproof.index \div Pow2(k - 1)) + 2]

\* the proof of the third of three leaves: its sibling is the padding leaf on
\* the right, then the left node of the level above
C26_Witness ==
    /\ Len(built) = 3
    /\ mproof # None /\ mproof.index = 2
    /\ mproof.ret # IndexError
    /\ mproof.ret.indices = <<1, 0>>
    /\ mproof.ret.path[1] = hash(Lit("padding"))

\* proofs is index-aligned with deltas, n entries each
ProofsIndexAligned(res, n) ==
    /\ Len(res.proofs) = n
    /\ Len(res.deltas) = n
    /\ \A i \in 1..n :
           /\ res.proofs[i] # IndexError
           /\ res.proofs[i].delta = res.deltas[i]
           /\ res.proofs[i].tx_hash = res.deltas[i].tx_hash
           /\ res.proofs[i].predicted_state = res.deltas[i].predicted_root
           /\ res.proofs[i].merkle_proof # IndexError
           /\ res.proofs[i].merkle_proof.leaf_hash = hash(res.deltas[i].delta_bytes)

\* C27: in every CompressionResult compress_block returns, proofs and deltas
\* have one entry per input transaction, and proofs[i] carries deltas[i], its
\* tx_hash, its predicted_root and the hash of its delta_bytes as leaf_hash.
C27_ProofsIndexAligned ==
    [][(result = None /\ result' # None) => ProofsIndexAligned(result', Len(sequences'))]_vars

\* a block of two transactions with different delta_bytes was compressed
C27_Witness ==
    /\ result # None /\ tampered = None
    /\ Len(sequences) = 2
    /\ Len(result.proofs) = 2
    /\ result.deltas[1].delta_bytes # result.deltas[2].delta_bytes
    /\ result.proofs[2].merkle_proof.leaf_hash = hash(result.deltas[2].delta_bytes)

\* C28: whenever StateVerifier.verify_proof returns VALID, the delta bytes it
\* decoded are the committed ones: the hash of proof.delta.delta_bytes is
\* proof.merkle_proof.leaf_hash.
C28_ValidBindsDeltaBytes ==
    (/\ LastOp = "verify_proof"
     /\ ~IsRaised(last.out.ret)
     /\ last.out.ret.status = "VALID")
        => hash(last.proof.delta.delta_bytes) = last.proof.merkle_proof.leaf_hash

\* C29: after a sequence of build calls the tree shows only the last build:
\* get_root is the root of the last build, and generate_proof(i) returns a
\* proof whose leaf_hash and path come from the leaf list of the last build or
\* raises a bounds error; after build([]) it raises for every index.
C29_OnlyLastBuildVisible ==
    (root # Lit("") /\ mproof # None)
        => /\ get_root = build_root(built)
           /\ \/ mproof.ret = IndexError
              \/ /\ built # <<>>
                 /\ LET lv == padded_leaves(built)
                    IN  mproof.ret = merkle_proof_of(lv, levels_from(lv), mproof.index)

\* C30: decode_full(encode_full(v)) is the generic-scheme decoding of v, and
\* for a residual d under either scheme decode_full(encode(d)) is
\* decode(encode(d)); no residual encoding starts with the flag byte 0x01.
C30_DecodeFullUnambiguous ==
    LastOp = "decode_full"
        => /\ last.ret = last.expected
           /\ ~last.full => first_byte(last.data) # 1

\* the same without the sparse residuals whose first component quantizes to -1
DecodeFullOtherwise ==
    (LastOp = "decode_full" /\ ~(~last.full /\ last.method = "varint"
                                   /\ quantize(last.v[1]) = 0 - 1))
        => /\ last.ret = last.expected
           /\ ~last.full => first_byte(last.data) # 1

====
